---- MODULE Spec2Model ----
(***************************************************************************)
(* s3mem-run: download one S3 object in parallel ranged fetches into an    *)
(* anonymous memory file (memfd) and exec a program against it.            *)
(* Model of src/s3mem-run/src/main.rs.                                     *)
(*                                                                         *)
(* Sizes and offsets are byte counts, with the program's own constants.    *)
(* The contents of the memory file are kept as a set of segments           *)
(* [lo, hi, kind, from]: bytes lo..hi hold zeros (kind "zero", the fill of *)
(* ftruncate), bytes of the source object starting at source offset `from` *)
(* (kind "src"), or bytes that are not the object's (kind "junk").         *)
(***************************************************************************)
EXTENDS Integers, Sequences, FiniteSets, TLC

\* ------------------------------------------------------------------------
\* Program constants (main.rs:21-25)
MIN_CHUNK_SIZE == 4194304
MAX_CHUNK_SIZE == 134217728
MIN_CONCURRENT_DOWNLOADS == 4
MAX_CONCURRENT_DOWNLOADS == 16
TARGET_CHUNKS_PER_FILE == 75

\* ------------------------------------------------------------------------
\* Bounds of the model
\* The largest plan explored has MaxRanges ranges.
MaxRanges == 5
\* memfd_create returns some descriptor number in 3..MaxFd.
MaxFd == 4
\* The sizing functions are sampled on sizes up to SizingMaxGiB GiB.
SizingMaxGiB == 12
\* Placeholder substitution is sampled on up to MaxArgs arguments of up to
\* MaxArgLen characters.
MaxArgs == 2
MaxArgLen == 3
\* Writes in any order are sampled on buffers of up to MaxBufferSize bytes.
MaxBufferSize == 4

Min(a, b) == IF a < b THEN a ELSE b
Max(a, b) == IF a > b THEN a ELSE b

\* Object sizes the metadata probe may report: the empty object, one byte,
\* the 10,000,000-byte object, one and two chunks exactly, and a plan of
\* MaxRanges ranges whose last range holds a single byte.
ObjectSizes ==
    { 0, 1, 10000000, MIN_CHUNK_SIZE, 2 * MIN_CHUNK_SIZE,
      (MaxRanges - 1) * MIN_CHUNK_SIZE + 1 }

\* ------------------------------------------------------------------------
\* Sizing policy

\* i64::clamp
Clamp(x, lo, hi) == IF x < lo THEN lo ELSE IF x > hi THEN hi ELSE x

\* 1024 * 1024 bytes
MiB == 1024 * 1024

\* (a chunk size without the lower bound of the clamp)
ChunkSizeNoFloor(mib, rem) ==
    IF mib \div TARGET_CHUNKS_PER_FILE >= MAX_CHUNK_SIZE \div MiB
    THEN MAX_CHUNK_SIZE
    ELSE Min((mib \div TARGET_CHUNKS_PER_FILE) * MiB
               + ((mib % TARGET_CHUNKS_PER_FILE) * MiB + rem) \div TARGET_CHUNKS_PER_FILE,
             MAX_CHUNK_SIZE)

\* calculate_optimal_chunk_size on a size given as mib * 2^20 + rem bytes
\* (0 <= rem < 2^20), so that sizes of 2 GiB and more can be given:
\*   file_size / 75 = (mib / 75) * 2^20 + ((mib % 75) * 2^20 + rem) / 75,
\* which is MAX_CHUNK_SIZE or more as soon as mib / 75 >= 128.
ChunkSizeOfMiB(mib, rem) ==
    IF mib \div TARGET_CHUNKS_PER_FILE >= MAX_CHUNK_SIZE \div MiB
    THEN MAX_CHUNK_SIZE
    ELSE Clamp((mib \div TARGET_CHUNKS_PER_FILE) * MiB
                 + ((mib % TARGET_CHUNKS_PER_FILE) * MiB + rem) \div TARGET_CHUNKS_PER_FILE,
               MIN_CHUNK_SIZE, MAX_CHUNK_SIZE)

calculate_optimal_chunk_size(file_size) ==
    ChunkSizeOfMiB(file_size \div MiB, file_size % MiB)

\* (the interpolation cut off with `as usize`, without .round())
ConcurrencyTruncated(mib, rem) ==
    IF mib < 512 \/ (mib = 512 /\ rem = 0)
    THEN MIN_CONCURRENT_DOWNLOADS
    ELSE IF mib >= 10240
    THEN MAX_CONCURRENT_DOWNLOADS
    ELSE MIN_CONCURRENT_DOWNLOADS
         + (24 * (mib - 512) + ((24 * rem) \div 1048576)) \div 19456

\* (the interpolation scaled by MAX instead of MAX - MIN)
ConcurrencyWideRange(mib, rem) ==
    IF mib < 512 \/ (mib = 512 /\ rem = 0)
    THEN MIN_CONCURRENT_DOWNLOADS
    ELSE IF mib >= 10240
    THEN MAX_CONCURRENT_DOWNLOADS
    ELSE MIN_CONCURRENT_DOWNLOADS
         + (32 * (mib - 512) + 9728 + ((32 * rem) \div 1048576)) \div 19456

\* calculate_optimal_concurrency on a size given as mib * 2^20 + rem bytes
\* (0 <= rem < 2^20).  size_gb <= 0.5 is size <= 2^29; size_gb >= 10.0 is
\* mib >= 10240; in between the code rounds (size_gb - 0.5) / 9.5 * 12 to
\* the nearest integer, halves away from zero:
\*   floor((24 * d + 19 * 2^29) / (19 * 2^30)),  d = size - 2^29.
ConcurrencyOfMiB(mib, rem) ==
    IF mib < 512 \/ (mib = 512 /\ rem = 0)
    THEN MIN_CONCURRENT_DOWNLOADS
    ELSE IF mib >= 10240
    THEN MAX_CONCURRENT_DOWNLOADS
    ELSE MIN_CONCURRENT_DOWNLOADS
         + (24 * (mib - 512) + 9728 + ((24 * rem) \div 1048576)) \div 19456

calculate_optimal_concurrency(file_size) ==
    ConcurrencyOfMiB(file_size \div 1048576, file_size % 1048576)

\* ------------------------------------------------------------------------
\* Memory file contents

Seg(lo, hi, kind, from) == [lo |-> lo, hi |-> hi, kind |-> kind, from |-> from]

\* What is left of the segments once bytes lo..hi are taken out.
Cut(segs, lo, hi) ==
    { Seg(s.lo, Min(s.hi, lo - 1), s.kind, s.from) : s \in { t \in segs : t.lo < lo } }
    \cup
    { Seg(Max(s.lo, hi + 1), s.hi, s.kind,
          IF s.kind = "src" THEN s.from + (Max(s.lo, hi + 1) - s.lo) ELSE 0)
        : s \in { t \in segs : t.hi > hi } }

\* Bytes lo..hi overwritten with one kind of content (nothing when hi < lo).
Fill(segs, lo, hi, kind, from) ==
    IF hi < lo THEN segs ELSE Cut(segs, lo, hi) \cup { Seg(lo, hi, kind, from) }

\* A memory file: its length and its contents.
EmptyFile == [size |-> 0, data |-> {}]

\* ftruncate(fd, length) on success: the file has exactly `length` bytes,
\* new bytes read as zeros.
Ftruncate(file, length) ==
    [size |-> length,
     data |-> IF length > file.size
              THEN Fill(file.data, file.size, length - 1, "zero", 0)
              ELSE Cut(file.data, length, file.size)]

\* A response body: `len` bytes, of which the first `good` are the object's
\* bytes from source offset `from` on and the rest are not the object's.
Body(len, good, from) == [len |-> len, good |-> good, from |-> from]

\* (a write with the seek left out: the data lands at the file's start)
WriteAtNoSeek(file, data, offset) ==
    IF data.len = 0
    THEN file
    ELSE [size |-> Max(file.size, data.len),
          data |-> Fill(Fill(file.data, 0, data.good - 1, "src", data.from),
                        data.good, data.len - 1, "junk", 0)]

\* (a write that appends, as on a descriptor opened with O_APPEND)
WriteAtEnd(file, data, offset) ==
    IF data.len = 0
    THEN file
    ELSE [size |-> file.size + data.len,
          data |-> Fill(Fill(file.data, file.size, file.size + data.good - 1,
                             "src", data.from),
                        file.size + data.good, file.size + data.len - 1, "junk", 0)]

\* MemFile::write_at on success: seek to `offset`, then write_all(data).
\* Writing past the end grows the file; a gap left by the seek reads as zeros.
write_at(file, data, offset) ==
    IF data.len = 0
    THEN file
    ELSE [size |-> Max(file.size, offset + data.len),
          data |-> Fill(Fill(Fill(file.data, file.size, offset - 1, "zero", 0),
                             offset, offset + data.good - 1, "src", data.from),
                        offset + data.good, offset + data.len - 1, "junk", 0)]

\* ------------------------------------------------------------------------
\* The download loop's arithmetic (parallel_download_to_memfd)

\* let total_chunks = (total_size + chunk_size - 1) / chunk_size
TotalChunks(size, chunk) == (size + chunk - 1) \div chunk

\* (the end of a chunk without the .min(total_size - 1))
ChunkEndUnclamped(first, chunk, size) == first + chunk - 1

\* let end = (start + chunk_size - 1).min(total_size - 1)
ChunkEnd(first, chunk, size) == Min(first + chunk - 1, size - 1)

\* (an acquire that never waits)
PermitAlways(free) == TRUE

\* acquire_owned().await returns once a permit is free (the semaphore is
\* never closed, so it never returns an error)
PermitAvailable(free) == free > 0

\* Bodies RangedGet may answer a request for bytes first..last with: the
\* requested bytes, one byte fewer, or one byte more.
Bodies(first, last) ==
    { Body(last - first + 1, last - first + 1, first),
      Body(last - first, last - first, first),
      Body(last - first + 2, last - first + 1, first) }

NoBody == Body(0, 0, 0)

\* download_chunk returns Ok((bytes, start as u64)) for any body it collected,
\* whatever its length.
ChunkResult(first, last, body) == [st |-> "ok", body |-> body, offset |-> first]

\* (a join that takes every task's result for Ok)
JoinNeverFails(task) == FALSE

\* .context("Task join failed")?.context("Chunk download failed")?
JoinFails(task) == task.st \in {"err", "panic"}

JoinError(task) ==
    IF task.st = "panic" THEN "Task join failed" ELSE "Chunk download failed"

\* memfd_create(name, 0): no flags
MemfdFlags == {}

\* Descriptor numbers memfd_create may return.
FdNumbers == 3 .. MaxFd

\* format!("/proc/self/fd/{}", memfile.fd)
MemfdPath(fd) == <<"/proc/self/fd/", ToString(fd)>>

NoPath == <<>>

\* str[from ..] starts with pat
StartsWithAt(str, from, pat) ==
    /\ from + Len(pat) - 1 <= Len(str)
    /\ \A k \in 1 .. Len(pat) : str[from + k - 1] = pat[k]

\* (a replace that stops after the first match, like str::replacen(.., 1))
RECURSIVE ReplaceFirstFrom(_, _, _, _)
ReplaceFirstFrom(str, from, pat, to) ==
    IF from > Len(str)
    THEN IF pat = <<>> /\ Len(str) = 0 THEN to ELSE <<>>
    ELSE IF StartsWithAt(str, from, pat)
    THEN to \o SubSeq(str, from + Len(pat), Len(str))
    ELSE <<str[from]>> \o ReplaceFirstFrom(str, from + 1, pat, to)

\* str::replace from position `from` on: every match of pat, found left to
\* right and not overlapping an earlier match, is replaced by `to`.  An
\* empty pat matches before every character and at the end.
RECURSIVE ReplaceFrom(_, _, _, _)
ReplaceFrom(str, from, pat, to) ==
    IF from > Len(str)
    THEN IF pat = <<>> THEN to ELSE <<>>
    ELSE IF pat = <<>>
    THEN to \o <<str[from]>> \o ReplaceFrom(str, from + 1, pat, to)
    ELSE IF StartsWithAt(str, from, pat)
    THEN to \o ReplaceFrom(str, from + Len(pat), pat, to)
    ELSE <<str[from]>> \o ReplaceFrom(str, from + 1, pat, to)

\* arg.replace(memfd_placeholder, &memfd_path)
Replace(str, pat, to) == ReplaceFrom(str, 1, pat, to)

\* (only the first placeholder of an argument replaced)
FinalArgsFirstOnly(args, placeholder, path) ==
    [i \in 1 .. Len(args) |-> ReplaceFirstFrom(args[i], 1, placeholder, path)]

\* args.iter().map(|arg| arg.replace(memfd_placeholder, &memfd_path)).collect()
FinalArgs(args, placeholder, path) ==
    [i \in 1 .. Len(args) |-> Replace(args[i], placeholder, path)]

\* Command lines of the runs explored, as program arguments and placeholder
\* (strings are sequences of characters): no argument at all, and the
\* placeholder alone, absent, and twice in one argument.
CommandLines ==
    { [args |-> <<>>, memfd_placeholder |-> <<"a", "b">>],
      [args |-> << <<"a", "b">>, <<"b">>, <<"a", "b", "b", "a", "b">> >>,
       memfd_placeholder |-> <<"a", "b">>] }

\* (a MemFile that holds the descriptor number only: dropping it closes nothing)
DropMemfileKeepsOpen(state) == state

\* Dropping a MemFile drops its std::fs::File, which closes the descriptor.
DropMemfile(state) == IF state = "open" THEN "closed" ELSE state

\* (the memfile dropped where it should be forgotten)
ForgetMemfileDrops(state) == DropMemfile(state)

\* std::mem::forget(memfile): the File is never dropped, the descriptor stays
\* as it is.
ForgetMemfile(state) == state

\* ------------------------------------------------------------------------
\* State

VARIABLES
    pc,                   \* where main's task stands
    error,                \* the error the run ended with, "none" otherwise
    total_size,           \* content length reported by head_object
    chunk_size,
    concurrent_downloads,
    permits,              \* free permits of the semaphore
    start,                \* `start` of the spawn loop
    tasks,                \* the spawned download tasks, in spawn order
    completed_chunks,     \* tasks the join loop has taken, the awaited one included
    written,              \* tasks whose body write_at has stored
    out_of_order,         \* some task completed while an earlier one was running
    memfd,                \* "none", "open" or "closed": the descriptor
    memfd_fd,             \* its number
    cloexec,              \* whether it is marked close-on-exec
    memfile,              \* the memory file: [size, data]
    memfd_path,           \* the path handed to the program, NoPath before
    exec_called,          \* cmd.exec() has been invoked
    child_has_file,       \* the exec'd program holds the open descriptor
    command,              \* the program's arguments, before and after substitution
    head_requests,        \* head_object requests sent
    sample                \* input and result of a function taken alone

vars == <<pc, error, total_size, chunk_size, concurrent_downloads, permits,
          start, tasks, completed_chunks, written, out_of_order, memfd, memfd_fd, cloexec,
          memfile, memfd_path, exec_called, child_has_file, command,
          head_requests, sample>>

planVars == <<total_size, chunk_size, concurrent_downloads>>
loopVars == <<permits, start, tasks, completed_chunks, written, out_of_order>>
fileVars == <<memfd, memfd_fd, cloexec, memfile>>
handoffVars == <<memfd_path, exec_called, child_has_file, command>>

\* No command line drawn yet.
NoCommand == [args |-> <<>>, memfd_placeholder |-> <<>>, final_args |-> <<>>]

\* In a run of the program no function is taken alone.
NoSample == [of |-> "run"]

Init ==
    /\ pc = "Idle"
    /\ error = "none"
    /\ total_size = 0
    /\ chunk_size = 0
    /\ concurrent_downloads = 0
    /\ permits = 0
    /\ start = 0
    /\ tasks = <<>>
    /\ completed_chunks = 0
    /\ written = 0
    /\ out_of_order = FALSE
    /\ memfd = "none"
    /\ memfd_fd = 0
    /\ cloexec = FALSE
    /\ memfile = EmptyFile
    /\ memfd_path = NoPath
    /\ exec_called = FALSE
    /\ child_has_file = FALSE
    /\ command = NoCommand
    /\ head_requests = 0
    /\ sample = NoSample

\* An error return from parallel_download_to_memfd, with its context message: its locals are dropped,
\* which closes the memory file if one was created; the error is returned up
\* to main and the process exits.  Download tasks still running are left
\* behind (their JoinHandles are dropped, nothing awaits them) and may still
\* settle before the process has ended.
Fail(kind) ==
    /\ pc' = "Failed"
    /\ error' = kind
    /\ memfd' = DropMemfile(memfd)

\* ------------------------------------------------------------------------
\* main (349-420)

\* Bucket, key and an existing program path are given: main builds the client and calls
\* create_memfd_and_exec, whose first step is the head_object request.
MainStart ==
    /\ pc = "Idle"
    /\ pc' = "head"
    /\ head_requests' = head_requests + 1
    /\ UNCHANGED <<error, planVars, loopVars, fileVars, handoffVars, sample>>

\* Neither --bucket nor S3_BUCKET is given: main returns the error at once.
MainBucketMissing ==
    /\ pc = "Idle"
    /\ pc' = "Failed"
    /\ error' = "S3_BUCKET environment variable not set and --bucket not provided"
    /\ UNCHANGED <<planVars, loopVars, fileVars, handoffVars, head_requests, sample>>

\* Neither --key nor S3_KEY is given: main returns the error at once.
MainKeyMissing ==
    /\ pc = "Idle"
    /\ pc' = "Failed"
    /\ error' = "S3_KEY environment variable not set and --key not provided"
    /\ UNCHANGED <<planVars, loopVars, fileVars, handoffVars, head_requests, sample>>

\* The program path does not exist: main returns the error at once.
MainProgramMissing ==
    /\ pc = "Idle"
    /\ pc' = "Failed"
    /\ error' = "Program does not exist"
    /\ UNCHANGED <<planVars, loopVars, fileVars, handoffVars, head_requests, sample>>

\* ------------------------------------------------------------------------
\* parallel_download_to_memfd (173-294)

\* head_object answers with a content length: the plan is computed.
HeadOk ==
    /\ pc = "head"
    /\ \E size \in ObjectSizes :
        /\ total_size' = size
        /\ chunk_size' = calculate_optimal_chunk_size(size)
        /\ concurrent_downloads' = calculate_optimal_concurrency(size)
    /\ pc' = "create"
    /\ UNCHANGED <<error, loopVars, fileVars, handoffVars, head_requests, sample>>

\* (a failed head_object is sent again)
HeadFailsRetries ==
    /\ pc = "head"
    /\ head_requests' = head_requests + 1
    /\ UNCHANGED <<pc, error, planVars, loopVars, fileVars, handoffVars, sample>>

\* head_object fails ("Failed to get object metadata from S3").
HeadFails ==
    /\ pc = "head"
    /\ Fail("Failed to get object metadata from S3")
    /\ UNCHANGED <<planVars, loopVars, memfd_fd, cloexec, memfile, handoffVars, head_requests, sample>>

\* head_object answers without a content length ("Content length not available").
HeadNoLength ==
    /\ pc = "head"
    /\ Fail("Content length not available")
    /\ UNCHANGED <<planVars, loopVars, memfd_fd, cloexec, memfile, handoffVars, head_requests, sample>>

\* MemFile::new("s3_file") succeeds: an empty memory file on a new descriptor.
MemFileNew ==
    /\ pc = "create"
    /\ \E fd \in FdNumbers : memfd_fd' = fd
    /\ memfd' = "open"
    /\ cloexec' = ("MFD_CLOEXEC" \in MemfdFlags)
    /\ memfile' = EmptyFile
    /\ pc' = "truncate"
    /\ UNCHANGED <<error, planVars, loopVars, handoffVars, head_requests, sample>>

\* memfd_create returns -1 ("Failed to create memfd").
MemFileNewFails ==
    /\ pc = "create"
    /\ Fail("Failed to create memfd")
    /\ UNCHANGED <<planVars, loopVars, memfd_fd, cloexec, memfile, handoffVars, head_requests, sample>>

\* ftruncate(memfile.fd, total_size) succeeds; the semaphore is created with
\* concurrent_downloads permits and the spawn loop starts at byte 0.
Presize ==
    /\ pc = "truncate"
    /\ memfile' = Ftruncate(memfile, total_size)
    /\ permits' = concurrent_downloads
    /\ start' = 0
    /\ tasks' = <<>>
    /\ pc' = "spawn"
    /\ UNCHANGED <<error, planVars, completed_chunks, written, out_of_order, memfd,
                   memfd_fd, cloexec, handoffVars, head_requests, sample>>

\* ftruncate returns -1 ("Failed to set file size").
PresizeFails ==
    /\ pc = "truncate"
    /\ Fail("Failed to set file size")
    /\ UNCHANGED <<planVars, loopVars, memfd_fd, cloexec, memfile, handoffVars, head_requests, sample>>

\* One turn of `while start < total_size`: a permit is acquired (waiting until
\* one is free), the task for start..end is spawned, start moves to end + 1.
SpawnChunk ==
    /\ pc = "spawn"
    /\ start < total_size
    /\ PermitAvailable(permits)
    /\ LET end == ChunkEnd(start, chunk_size, total_size) IN
        /\ tasks' = Append(tasks, [start |-> start, end |-> end, st |-> "inflight",
                                   body |-> NoBody, offset |-> 0])
        /\ start' = end + 1
    /\ permits' = permits - 1
    /\ UNCHANGED <<pc, error, planVars, completed_chunks, written, out_of_order,
                   fileVars, handoffVars, head_requests, sample>>

\* The spawn loop ends: every chunk is scheduled, the join loop begins.
SpawnDone ==
    /\ pc = "spawn"
    /\ ~(start < total_size)
    /\ pc' = "join"
    /\ completed_chunks' = 0
    /\ UNCHANGED <<error, planVars, permits, start, tasks, written, out_of_order,
                   fileVars, handoffVars, head_requests, sample>>

\* Whether the runtime still runs the spawned tasks: until the process ends.
\* A failing return of main drops the JoinHandles, which detaches the tasks:
\* the worker threads go on settling them and dropping their permits while the
\* runtime shuts down (a process that ends earlier takes no further step).
\* exec replaces the process image and with it every task.
Running == pc # "HandedOff"

EarlierRunning(i) == \E j \in 1 .. (i - 1) : tasks[j].st = "inflight"

\* A download task's request is answered with a body: download_chunk returns
\* Ok((bytes, start)), the permit is dropped, the task completes.
ChunkDownloaded(i) ==
    /\ Running
    /\ tasks[i].st = "inflight"
    /\ \E body \in Bodies(tasks[i].start, tasks[i].end) :
        tasks' = [tasks EXCEPT ![i] =
                    [start |-> tasks[i].start, end |-> tasks[i].end]
                    @@ ChunkResult(tasks[i].start, tasks[i].end, body)]
    /\ permits' = permits + 1
    /\ out_of_order' = (out_of_order \/ EarlierRunning(i))
    /\ UNCHANGED <<pc, error, planVars, start, completed_chunks, written, fileVars,
                   handoffVars, head_requests, sample>>

\* (a failed download keeps its permit)
ChunkFailsKeepsPermit(i) ==
    /\ Running
    /\ tasks[i].st = "inflight"
    /\ tasks' = [tasks EXCEPT ![i].st = "err"]
    /\ out_of_order' = (out_of_order \/ EarlierRunning(i))
    /\ UNCHANGED <<pc, error, planVars, permits, start, completed_chunks, written,
                   fileVars, handoffVars, head_requests, sample>>

\* A download task's request or body collection fails: download_chunk returns
\* Err, the permit is dropped, the task completes.
ChunkFails(i) ==
    /\ Running
    /\ tasks[i].st = "inflight"
    /\ tasks' = [tasks EXCEPT ![i].st = "err"]
    /\ permits' = permits + 1
    /\ out_of_order' = (out_of_order \/ EarlierRunning(i))
    /\ UNCHANGED <<pc, error, planVars, start, completed_chunks, written, fileVars,
                   handoffVars, head_requests, sample>>

\* (a panic that leaves the permit taken)
ChunkPanicsKeepsPermit(i) ==
    /\ Running
    /\ tasks[i].st = "inflight"
    /\ tasks' = [tasks EXCEPT ![i].st = "panic"]
    /\ out_of_order' = (out_of_order \/ EarlierRunning(i))
    /\ UNCHANGED <<pc, error, planVars, permits, start, completed_chunks, written,
                   fileVars, handoffVars, head_requests, sample>>

\* A download task panics: the unwinding drops the permit, and the task's
\* JoinHandle will yield a JoinError.
ChunkPanics(i) ==
    /\ Running
    /\ tasks[i].st = "inflight"
    /\ tasks' = [tasks EXCEPT ![i].st = "panic"]
    /\ permits' = permits + 1
    /\ out_of_order' = (out_of_order \/ EarlierRunning(i))
    /\ UNCHANGED <<pc, error, planVars, start, completed_chunks, written, fileVars,
                   handoffVars, head_requests, sample>>

\* (the join loop taking the tasks from the last one down)
AwaitedFromLast == tasks[Len(tasks) - completed_chunks + 1]

\* One turn of `for task in tasks` begins: the next task is taken and counted
\* (completed_chunks += 1) before it is awaited.
JoinNext ==
    /\ pc = "join"
    /\ completed_chunks < Len(tasks)
    /\ completed_chunks' = completed_chunks + 1
    /\ pc' = "await"
    /\ UNCHANGED <<error, planVars, permits, start, tasks, written, out_of_order,
                   fileVars, handoffVars, head_requests, sample>>

\* The task the join loop awaits: the one it counted last.
Awaited == tasks[completed_chunks]

\* task.await returns: the awaited task has completed.
JoinReady ==
    /\ pc = "await"
    /\ Awaited.st # "inflight"

\* The awaited task returned Ok and write_at stores its body at its offset;
\* the loop goes on to its next turn.
JoinWrite ==
    /\ JoinReady
    /\ ~JoinFails(Awaited)
    /\ memfile' = write_at(memfile, Awaited.body, Awaited.offset)
    /\ written' = written + 1
    /\ pc' = "join"
    /\ UNCHANGED <<error, planVars, permits, start, tasks, completed_chunks,
                   out_of_order, memfd, memfd_fd, cloexec, handoffVars, head_requests,
                   sample>>

\* The awaited task returned Ok and the seek of write_at fails ("Failed to
\* seek in memfd"): nothing is written, the memory file is dropped with the
\* error.
JoinSeekFails ==
    /\ JoinReady
    /\ ~JoinFails(Awaited)
    /\ Fail("Failed to seek in memfd")
    /\ UNCHANGED <<planVars, permits, start, tasks, completed_chunks, written,
                   out_of_order, memfd_fd,
                   cloexec, memfile, handoffVars, head_requests, sample>>

\* The awaited task returned Ok and the write_all of write_at fails ("Failed
\* to write to memfd").  The memory file is dropped with the error, so what
\* the failed write left in it is never read.  (write_all of an empty body
\* makes no write and cannot fail.)
JoinWriteFails ==
    /\ JoinReady
    /\ ~JoinFails(Awaited)
    /\ Awaited.body.len > 0
    /\ Fail("Failed to write to memfd")
    /\ UNCHANGED <<planVars, permits, start, tasks, completed_chunks, written,
                   out_of_order, memfd_fd,
                   cloexec, memfile, handoffVars, head_requests, sample>>

\* The awaited task panicked ("Task join failed") or returned Err ("Chunk
\* download failed"): `?` returns the error.
JoinChunkFailed ==
    /\ JoinReady
    /\ JoinFails(Awaited)
    /\ Fail(JoinError(Awaited))
    /\ UNCHANGED <<planVars, permits, start, tasks, completed_chunks, written,
                   out_of_order, memfd_fd,
                   cloexec, memfile, handoffVars, head_requests, sample>>

\* The join loop ends, every task taken: Ok(memfile) is returned to
\* create_memfd_and_exec.
JoinDone ==
    /\ pc = "join"
    /\ completed_chunks = Len(tasks)
    /\ pc' = "Materialized"
    /\ UNCHANGED <<error, planVars, loopVars, fileVars, handoffVars, head_requests, sample>>

\* ------------------------------------------------------------------------
\* create_memfd_and_exec (299-346)

\* The path of the descriptor is formatted, exported as MEMFD_PATH and put in
\* place of the placeholder in every argument; then the memfile is forgotten.
\* (The command line is fixed when the process starts; it is drawn here, where
\* it is first read.)
Finalize ==
    /\ pc = "Materialized"
    /\ memfd_path' = MemfdPath(memfd_fd)
    /\ \E c \in CommandLines :
        command' = [args |-> c.args, memfd_placeholder |-> c.memfd_placeholder,
                    final_args |-> FinalArgs(c.args, c.memfd_placeholder,
                                             MemfdPath(memfd_fd))]
    /\ memfd' = ForgetMemfile(memfd)
    /\ pc' = "exec"
    /\ UNCHANGED <<error, planVars, loopVars, memfd_fd, cloexec, memfile, exec_called,
                   child_has_file, head_requests, sample>>

\* cmd.exec() replaces the process image: descriptors that are open and not
\* close-on-exec stay open in the program.
ExecReplaces ==
    /\ pc = "exec"
    /\ exec_called' = TRUE
    /\ child_has_file' = (memfd = "open" /\ ~cloexec)
    /\ pc' = "HandedOff"
    /\ UNCHANGED <<error, planVars, loopVars, fileVars, memfd_path, command, head_requests, sample>>

\* (an exec failure answered by starting the run over)
ExecFailsRetries ==
    /\ pc = "exec"
    /\ exec_called' = TRUE
    /\ pc' = "head"
    /\ error' = "exec failed"
    /\ UNCHANGED <<planVars, loopVars, fileVars, memfd_path, child_has_file, command,
                   head_requests, sample>>

\* cmd.exec() returns: its error is returned to main.  The memfile was
\* forgotten, so nothing closes the descriptor.
ExecFails ==
    /\ pc = "exec"
    /\ exec_called' = TRUE
    /\ pc' = "Failed"
    /\ error' = "exec failed"
    /\ UNCHANGED <<planVars, loopVars, fileVars, memfd_path, child_has_file, command,
                   head_requests, sample>>

Next ==
    \/ MainStart
    \/ MainBucketMissing
    \/ MainKeyMissing
    \/ MainProgramMissing
    \/ HeadOk
    \/ HeadFails
    \/ HeadNoLength
    \/ MemFileNew
    \/ MemFileNewFails
    \/ Presize
    \/ PresizeFails
    \/ SpawnChunk
    \/ SpawnDone
    \/ \E i \in 1 .. Len(tasks) : ChunkDownloaded(i)
    \/ \E i \in 1 .. Len(tasks) : ChunkFails(i)
    \/ \E i \in 1 .. Len(tasks) : ChunkPanics(i)
    \/ JoinNext
    \/ JoinWrite
    \/ JoinSeekFails
    \/ JoinWriteFails
    \/ JoinChunkFailed
    \/ JoinDone
    \/ Finalize
    \/ ExecReplaces
    \/ ExecFails

Spec == Init /\ [][Next]_vars

\* The steps of the main task: main, the spawn loop, the join loop, exec.
MainStep ==
    \/ MainStart \/ MainBucketMissing \/ MainKeyMissing \/ MainProgramMissing
    \/ HeadOk \/ HeadFails \/ HeadNoLength
    \/ MemFileNew \/ MemFileNewFails
    \/ Presize \/ PresizeFails
    \/ SpawnChunk \/ SpawnDone
    \/ JoinNext \/ JoinWrite \/ JoinSeekFails \/ JoinWriteFails
    \/ JoinChunkFailed \/ JoinDone
    \/ Finalize \/ ExecReplaces \/ ExecFails

\* The settling of the i-th spawned task's fetch.
TaskStep(i) ==
    /\ i \in 1 .. Len(tasks)
    /\ (ChunkDownloaded(i) \/ ChunkFails(i) \/ ChunkPanics(i))

\* The settling of a fetch while the main task has not returned an error.
\* Once it has, the process exits and the runtime drops the tasks still
\* pending: they may settle before that, but nothing makes them.
TaskStepBeforeExit(i) ==
    /\ pc # "Failed"
    /\ TaskStep(i)

\* The runtime schedules every task that can run: the main task takes its next
\* step, and while the main task has not failed and fetches are in flight,
\* one of them settles.  (Each fetch settles once, so this is no weaker than
\* fairness to each fetch.)
FairSpec ==
    /\ Spec
    /\ WF_vars(MainStep)
    /\ WF_vars(\E i \in 1 .. MaxRanges : TaskStepBeforeExit(i))

\* ------------------------------------------------------------------------
\* Vocabulary of the properties

\* The states of a run, as the phases of the code: Planning is the metadata
\* probe and the sizing, Downloading runs from the creation of the memory
\* file to the end of the join loop, Materialized from the return of the
\* filled memory file to exec.
Phase(p) ==
    CASE p = "Idle" -> "Idle"
      [] p = "head" -> "Planning"
      [] p \in {"create", "truncate", "spawn", "join", "await"} -> "Downloading"
      [] p \in {"Materialized", "exec"} -> "Materialized"
      [] p = "HandedOff" -> "HandedOff"
      [] p = "Failed" -> "Failed"

TaskIds == 1 .. Len(tasks)

InFlight == { i \in TaskIds : tasks[i].st = "inflight" }

RequestedLen(t) == t.end - t.start + 1

\* The task's fetch returned exactly the requested bytes of the object.
ExactBody(t) ==
    /\ t.st = "ok"
    /\ t.body.len = RequestedLen(t)
    /\ t.body.good = t.body.len
    /\ t.body.from = t.start

\* The task's fetch returned a body of another length than requested.
WrongLength(t) == t.st = "ok" /\ t.body.len # RequestedLen(t)

\* The least n with n * chunk >= size.
CeilDiv(size, chunk) ==
    CHOOSE n \in 0 .. (MaxRanges + 1) : n * chunk >= size /\ (n - 1) * chunk < size

RECURSIVE SumLengths(_)
SumLengths(ts) ==
    IF ts = <<>> THEN 0 ELSE RequestedLen(Head(ts)) + SumLengths(Tail(ts))

SpawnFinished == pc \in {"join", "await", "Materialized", "exec", "HandedOff"}

Presized == pc \in {"spawn", "join", "await", "Materialized", "exec", "HandedOff"}

\* The segments cover bytes 0 .. size-1 exactly once.
Tiles(file) ==
    /\ file.size > 0 => file.data # {}
    /\ \A s \in file.data :
        /\ 0 <= s.lo /\ s.lo <= s.hi /\ s.hi < file.size
        /\ s.lo = 0 \/ \E t \in file.data : t.hi = s.lo - 1
        /\ s.hi = file.size - 1 \/ \E t \in file.data : t.lo = s.hi + 1
        /\ \A t \in file.data : t = s \/ t.hi < s.lo \/ s.hi < t.lo

\* Byte i of the file is byte i of the object, for every i.
EqualsObject(file) ==
    /\ Tiles(file)
    /\ \A s \in file.data : s.kind = "src" /\ s.from = s.lo

\* ------------------------------------------------------------------------
\* Properties

\* C1: exec is invoked only when every range of the plan was fetched
\* successfully and written into the memory file; a run in which the
\* pre-sizing, a fetch or a write failed never invokes exec.
C1_AllOrNothing ==
    /\ exec_called =>
        /\ Len(tasks) = CeilDiv(total_size, chunk_size)
        /\ \A i \in TaskIds : tasks[i].st = "ok"
        /\ completed_chunks = Len(tasks)
        /\ written = Len(tasks)
        /\ Tiles(memfile)
    /\ error \in {"Failed to create memfd", "Failed to set file size",
                  "Task join failed", "Chunk download failed",
                  "Failed to seek in memfd", "Failed to write to memfd"}
        => ~exec_called

C1_Witness ==
    /\ pc = "HandedOff"
    /\ exec_called
    /\ Len(tasks) = MaxRanges
    /\ written = MaxRanges

\* C2: (as claimed) once a fetch has returned a body whose length is not the
\* requested one, the program is never exec'd and no path to the memory file
\* is ever produced.
C2_WrongLengthIsTransferError ==
    (\E i \in TaskIds : WrongLength(tasks[i]))
        => (~exec_called /\ memfd_path = NoPath /\ pc # "Materialized")

\* C3: at most concurrent_downloads fetches are in flight.
C3_BoundedInFlight == Cardinality(InFlight) <= concurrent_downloads

C3_Witness ==
    /\ pc = "spawn"
    /\ start < total_size
    /\ Cardinality(InFlight) = concurrent_downloads
    /\ permits = 0

\* C4: (as claimed) when the download returns the failure of a chunk, no
\* fetch is in flight any more and every permit is back.
C4_DrainedOnFailure ==
    (pc = "Failed" /\ error = "Chunk download failed")
        => (InFlight = {} /\ permits = concurrent_downloads)

\* C5: (as claimed) once a fetch has failed, no further chunk is admitted.
C5_NoAdmissionAfterFailure ==
    [][(\E i \in TaskIds : tasks[i].st = "err") => Len(tasks') = Len(tasks)]_vars

\* C6: for an object of total_size > 0 the ranges fetched are contiguous,
\* start at 0, end at total_size - 1, hold chunk_size bytes each but possibly
\* the last, sum up to total_size and number ceil(total_size / chunk_size).
C6_Partition ==
    (SpawnFinished /\ total_size > 0) =>
        /\ Len(tasks) >= 1
        /\ tasks[1].start = 0
        /\ tasks[Len(tasks)].end = total_size - 1
        /\ \A i \in TaskIds : tasks[i].start <= tasks[i].end
        /\ \A i \in 1 .. (Len(tasks) - 1) :
            /\ tasks[i + 1].start = tasks[i].end + 1
            /\ RequestedLen(tasks[i]) = chunk_size
        /\ RequestedLen(tasks[Len(tasks)]) <= chunk_size
        /\ SumLengths(tasks) = total_size
        /\ Len(tasks) = CeilDiv(total_size, chunk_size)
        /\ Len(tasks) = TotalChunks(total_size, chunk_size)

C6_Witness ==
    /\ SpawnFinished
    /\ Len(tasks) = MaxRanges
    /\ RequestedLen(tasks[Len(tasks)]) < chunk_size

\* C7: when every fetch returned exactly the requested bytes, the memory file
\* handed off has total_size bytes and equals the object byte for byte,
\* whatever the order in which the fetches completed.
C7_BufferEqualsObject ==
    (pc \in {"Materialized", "exec", "HandedOff"}
       /\ \A i \in TaskIds : ExactBody(tasks[i]))
        => (memfile.size = total_size /\ EqualsObject(memfile))

C7_Witness ==
    /\ pc = "HandedOff"
    /\ Len(tasks) = MaxRanges
    /\ \A i \in TaskIds : ExactBody(tasks[i])
    /\ out_of_order

\* C8: (as claimed) the run moves along Idle, Planning, Downloading,
\* Materialized, HandedOff, and enters Failed from Planning, Downloading or
\* Materialized only.
ClaimedMoves ==
    { <<"Idle", "Planning">>, <<"Planning", "Downloading">>,
      <<"Downloading", "Materialized">>, <<"Materialized", "HandedOff">>,
      <<"Planning", "Failed">>, <<"Downloading", "Failed">>,
      <<"Materialized", "Failed">> }

C8_ClaimedMovesOnly ==
    [][Phase(pc') # Phase(pc) => <<Phase(pc), Phase(pc')>> \in ClaimedMoves]_vars

\* C8, amended: the same moves, and Failed is also entered from Idle, when
\* main finds no bucket, no key or a program path that does not exist.
C8_MovesOnly ==
    [][Phase(pc') # Phase(pc) =>
        <<Phase(pc), Phase(pc')>> \in ClaimedMoves \cup { <<"Idle", "Failed">> }]_vars

C8_Witness ==
    /\ pc = "Failed"
    /\ error = "Program does not exist"
    /\ memfd = "none"
    /\ tasks = <<>>

\* C9: once the path of the memory file has been produced, its descriptor is
\* open and not close-on-exec up to and through exec, so the program exec'd
\* holds the filled memory file under that path.
C9_DescriptorSurvives ==
    memfd_path # NoPath =>
        /\ memfd = "open"
        /\ ~cloexec
        /\ memfd_path = MemfdPath(memfd_fd)
        /\ written = Len(tasks)
        /\ pc = "HandedOff" => child_has_file

C9_Witness == pc = "HandedOff" /\ memfd_path # NoPath /\ child_has_file /\ written > 0

\* C10: (as claimed) from its pre-sizing on, the memory file has total_size
\* bytes, whatever bodies the fetches return.
C10_SizeFixed == Presized => memfile.size = total_size

\* ------------------------------------------------------------------------
\* The sizing functions taken alone

\* Sizes sampled, as mib * 2^20 + rem bytes: around every threshold of the two
\* functions (300 MiB and 9600 MiB for the chunk size; 0.5 GiB, 10 GiB and the
\* first and last rounding steps for the concurrency), and every half GiB.
SizingMiBs ==
    { 0, 1, 299, 300, 301, 511, 512, 513, 916, 917, 918, 5120, 9599, 9600, 9601,
      9833, 9834, 9835, 10239, 10240, 10241 }
    \cup { 512 * k : k \in 0 .. (2 * SizingMaxGiB) }

SizingRems == { 0, 1, 349525, 349526, 699050, 699051, MiB - 1 }

Sized(mib, rem) ==
    [of |-> "sizing", mib |-> mib, rem |-> rem,
     chunk |-> ChunkSizeOfMiB(mib, rem),
     conc |-> ConcurrencyOfMiB(mib, rem)]

runVars == <<pc, error, total_size, chunk_size, concurrent_downloads, permits,
             start, tasks, completed_chunks, written, out_of_order, memfd, memfd_fd,
             cloexec, memfile, memfd_path, exec_called, child_has_file, command,
             head_requests>>

\* No run is in progress: the variables of the run keep their initial values.
NoRun ==
    /\ pc = "Idle" /\ error = "none"
    /\ total_size = 0 /\ chunk_size = 0 /\ concurrent_downloads = 0
    /\ permits = 0 /\ start = 0 /\ tasks = <<>>
    /\ completed_chunks = 0 /\ written = 0 /\ out_of_order = FALSE
    /\ memfd = "none" /\ memfd_fd = 0 /\ cloexec = FALSE /\ memfile = EmptyFile
    /\ memfd_path = NoPath /\ exec_called = FALSE /\ child_has_file = FALSE
    /\ command = NoCommand /\ head_requests = 0

SizingInit == NoRun /\ sample = Sized(0, 0)

\* Both functions applied to a larger size.
SizeLarger ==
    /\ \E mib \in SizingMiBs, rem \in SizingRems :
        /\ mib > sample.mib \/ (mib = sample.mib /\ rem > sample.rem)
        /\ sample' = Sized(mib, rem)
    /\ UNCHANGED runVars

SizingSpec == SizingInit /\ [][SizeLarger]_vars

\* k * n as hi * 2^20 + lo, for 0 <= n and k * 2^20 within the integers.
Times(k, n) ==
    [hi |-> k * (n \div MiB) + (k * (n % MiB)) \div MiB,
     lo |-> (k * (n % MiB)) % MiB]

\* hi * 2^20 + lo <= mib * 2^20 + rem
AtMost(x, mib, rem) == x.hi < mib \/ (x.hi = mib /\ x.lo <= rem)

\* C11: the chunk size is clamp(total_size / 75, 4 MiB, 128 MiB) with integer
\* division: it lies in [4 MiB, 128 MiB], is 4 MiB for size 0, is total_size / 75
\* rounded down when that lies in between, and never decreases as the size grows.
C11_ChunkSizeClamped ==
    /\ [](/\ MIN_CHUNK_SIZE <= sample.chunk
          /\ sample.chunk <= MAX_CHUNK_SIZE
          /\ (sample.mib = 0 /\ sample.rem = 0) => sample.chunk = MIN_CHUNK_SIZE
          /\ sample.chunk > MIN_CHUNK_SIZE =>
                AtMost(Times(TARGET_CHUNKS_PER_FILE, sample.chunk), sample.mib, sample.rem)
          /\ sample.chunk < MAX_CHUNK_SIZE =>
                ~AtMost(Times(TARGET_CHUNKS_PER_FILE, sample.chunk + 1),
                        sample.mib, sample.rem))
    /\ [][sample'.chunk >= sample.chunk]_vars

C11_Witness ==
    /\ sample.of = "sizing"
    /\ sample.mib = 5120
    /\ MIN_CHUNK_SIZE < sample.chunk
    /\ sample.chunk < MAX_CHUNK_SIZE

\* The size lies strictly between 0.5 GiB and 10 GiB.
Interpolated(x) == (x.mib > 512 \/ (x.mib = 512 /\ x.rem > 0)) /\ x.mib < 10240

\* 24 * (size - 2^29) in MiB, rounded down: (size_gb - 0.5) / 9.5 * 12 is this
\* number over 19456.
Scaled(x) == 24 * (x.mib - 512) + (24 * x.rem) \div MiB

\* C12: the concurrency is 4 up to 0.5 GiB and 16 from 10 GiB on, lies in
\* [4, 16], never decreases as the size grows, and in between is 4 plus
\* (size_gb - 0.5) / 9.5 * 12 rounded to the nearest integer.
C12_Concurrency ==
    /\ [](/\ MIN_CONCURRENT_DOWNLOADS <= sample.conc
          /\ sample.conc <= MAX_CONCURRENT_DOWNLOADS
          /\ (sample.mib < 512 \/ (sample.mib = 512 /\ sample.rem = 0))
                => sample.conc = MIN_CONCURRENT_DOWNLOADS
          /\ sample.mib >= 10240 => sample.conc = MAX_CONCURRENT_DOWNLOADS
          /\ Interpolated(sample) =>
                LET n == sample.conc - MIN_CONCURRENT_DOWNLOADS IN
                /\ (2 * n - 1) * 9728 <= Scaled(sample)
                /\ Scaled(sample) < (2 * n + 1) * 9728)
    /\ [][sample'.conc >= sample.conc]_vars

C12_Witness ==
    /\ sample.of = "sizing"
    /\ sample.mib = 2560
    /\ sample.conc = 7

\* C13: (as claimed) for every size strictly between 0.5 GiB and 10 GiB the
\* concurrency is strictly between 4 and 16.
C13_StrictlyBetween ==
    Interpolated(sample) =>
        (MIN_CONCURRENT_DOWNLOADS < sample.conc /\ sample.conc < MAX_CONCURRENT_DOWNLOADS)

\* C13, amended: for a size strictly between 0.5 GiB and 10 GiB the
\* concurrency is more than 4 exactly from 917 MiB + 349526 bytes on and less
\* than 16 exactly up to 9834 MiB + 699050 bytes (as at 5 GiB); it is 4 below
\* and 16 above.
C13_StrictlyBetweenFromTo ==
    Interpolated(sample) =>
        /\ MIN_CONCURRENT_DOWNLOADS <= sample.conc
        /\ sample.conc <= MAX_CONCURRENT_DOWNLOADS
        /\ sample.conc > MIN_CONCURRENT_DOWNLOADS
             <=> (sample.mib > 917 \/ (sample.mib = 917 /\ sample.rem >= 349526))
        /\ sample.conc < MAX_CONCURRENT_DOWNLOADS
             <=> (sample.mib < 9834 \/ (sample.mib = 9834 /\ sample.rem <= 699050))

C13_Witness ==
    /\ sample.of = "sizing"
    /\ sample.mib = 5120 /\ sample.rem = 0
    /\ sample.conc = 10

\* ------------------------------------------------------------------------
\* Placeholder substitution taken alone

Chars == {"a", "b"}

\* Strings of up to n characters.
Strings(n) == UNION { [1 .. k -> Chars] : k \in 0 .. n }

\* Argument lists of up to MaxArgs strings.
ArgLists == UNION { [1 .. k -> Strings(MaxArgLen)] : k \in 0 .. MaxArgs }

\* Placeholders: empty, one character, two different, two equal characters.
Placeholders == { <<>>, <<"a">>, <<"a", "b">>, <<"a", "a">> }

SubstInit ==
    /\ NoRun
    /\ \E args \in ArgLists, placeholder \in Placeholders, fd \in FdNumbers :
        sample = [of |-> "subst", args |-> args, memfd_placeholder |-> placeholder,
                  memfd_path |-> MemfdPath(fd), final_args |-> <<>>, done |-> FALSE]

\* The arguments are mapped through replace.
Substitute ==
    /\ sample.of = "subst"
    /\ ~sample.done
    /\ sample' = [sample EXCEPT
                    !.final_args = FinalArgs(sample.args, sample.memfd_placeholder,
                                             sample.memfd_path),
                    !.done = TRUE]
    /\ UNCHANGED runVars

SubstSpec == SubstInit /\ [][Substitute]_vars

\* pat occurs in str
Occurs(pat, str) == \E k \in 1 .. (Len(str) + 1) : StartsWithAt(str, k, pat)

\* The number of positions of str at which pat starts.
Occurrences(pat, str) ==
    Cardinality({ k \in 1 .. (Len(str) + 1) : StartsWithAt(str, k, pat) })

\* C14: substitution keeps the number and order of the arguments; an argument
\* without the placeholder is unchanged; in the others every occurrence is
\* replaced by the one path: none is left, every character that is not the
\* argument's own belongs to a copy of the path, and putting the placeholder
\* back for the path gives the argument again.
C14_Substitution ==
    (sample.of = "subst" /\ sample.done) =>
        /\ Len(sample.final_args) = Len(sample.args)
        /\ \A i \in 1 .. Len(sample.args) :
            LET arg == sample.args[i]
                out == sample.final_args[i]
                tok == sample.memfd_placeholder
                path == sample.memfd_path
            IN  /\ ~Occurs(tok, arg) => out = arg
                /\ tok # <<>> => ~Occurs(tok, out)
                /\ Occurs(tok, arg) => Occurs(path, out)
                /\ \A k \in 1 .. Len(out) :
                    out[k] \notin Chars =>
                        StartsWithAt(out, k, path) \/ StartsWithAt(out, k - 1, path)
                /\ Replace(out, path, tok) = arg
                /\ Len(out) = Len(arg)
                     + Occurrences(path, out) * (Len(path) - Len(tok))

C14_Witness ==
    /\ sample.of = "subst" /\ sample.done
    /\ sample.memfd_placeholder = <<"a">>
    /\ Len(sample.args) = 2
    /\ ~Occurs(sample.memfd_placeholder, sample.args[1])
    /\ sample.final_args[1] = sample.args[1]
    /\ Occurrences(sample.memfd_placeholder, sample.args[2]) = 2
    /\ Occurrences(sample.memfd_path, sample.final_args[2]) = 2

\* ------------------------------------------------------------------------
\* The metadata probe

\* The errors of the probe.
MetadataErrors ==
    { "Failed to get object metadata from S3", "Content length not available" }

\* The errors main returns before the download is entered.
ArgumentErrors ==
    { "S3_BUCKET environment variable not set and --bucket not provided",
      "S3_KEY environment variable not set and --key not provided",
      "Program does not exist" }

\* Nothing of the download or of the hand-off has happened.
NothingStarted ==
    /\ memfd = "none"
    /\ tasks = <<>>
    /\ written = 0
    /\ memfd_path = NoPath
    /\ ~exec_called
    /\ ~child_has_file

\* C15: (as claimed) every run that has left Idle has issued exactly one
\* metadata probe, before anything else; a probe that fails or reports no
\* size ends the run with no memory file created, no ranged fetch issued and
\* no program started.
C15_ExactlyOneProbe ==
    /\ pc # "Idle" => head_requests = 1
    /\ pc = "head" => NothingStarted
    /\ error \in MetadataErrors => pc = "Failed" /\ NothingStarted

\* C15, amended: a run never issues more than one metadata probe; a run that
\* main rejects for its arguments (no bucket, no key, no such program) issues
\* none and starts nothing; every other run issues exactly one, before
\* anything else; a probe that fails or reports no size ends the run, from
\* Planning, with no memory file created, no ranged fetch issued and no
\* program started.
C15_OneProbeFirst ==
    /\ [](/\ head_requests <= 1
          /\ head_requests = 0 =>
                /\ pc = "Idle" \/ (pc = "Failed" /\ error \in ArgumentErrors)
                /\ NothingStarted
          /\ pc \notin {"Idle", "Failed"} => head_requests = 1
          /\ pc = "head" => NothingStarted /\ total_size = 0
          /\ error \in MetadataErrors =>
                pc = "Failed" /\ head_requests = 1 /\ NothingStarted)
    /\ [][(error' \in MetadataErrors /\ error \notin MetadataErrors)
            => Phase(pc) = "Planning" /\ Phase(pc') = "Failed"]_vars

\* The probe reported no size: the run has failed with its one probe issued
\* and nothing started.
C15_Witness ==
    /\ pc = "Failed"
    /\ error = "Content length not available"
    /\ head_requests = 1
    /\ NothingStarted

\* ------------------------------------------------------------------------
\* Admission slots

\* The semaphore exists: from the end of Presize on.
SemaphoreCreated ==
    pc \in {"spawn", "join", "await", "Materialized", "exec", "HandedOff"} \/ tasks # <<>>

\* C16: a range is admitted only by taking a free slot, and its fetch is in
\* flight from then on; the slot comes back in the very step in which the
\* fetch settles, whatever the outcome and with no write involved; so the
\* slots that are not free are exactly those of the fetches in flight, and a
\* settled range holds none.
C16_SlotHeldWhileInFlight ==
    /\ [](SemaphoreCreated =>
            /\ permits >= 0
            /\ permits + Cardinality(InFlight) = concurrent_downloads)
    /\ [][Len(tasks') > Len(tasks) =>
            /\ permits > 0
            /\ permits' = permits - 1
            /\ Len(tasks') = Len(tasks) + 1
            /\ tasks'[Len(tasks')].st = "inflight"]_vars
    /\ [][\A i \in TaskIds :
            (tasks[i].st = "inflight" /\ tasks'[i].st # "inflight") =>
                /\ permits' = permits + 1
                /\ written' = written
                /\ written < i]_vars

\* The last range was admitted on the slot a failed fetch gave back: all
\* other slots are still held and nothing has been written.
C16_Witness ==
    /\ Len(tasks) = concurrent_downloads + 1
    /\ tasks[1].st = "err"
    /\ \A i \in 2 .. Len(tasks) : tasks[i].st = "inflight"
    /\ permits = 0
    /\ written = 0

\* ------------------------------------------------------------------------
\* The writes of the join loop

\* The bytes the write of task t covers: offset .. offset + len - 1.
WriteLo(t) == t.offset

WriteHi(t) == t.offset + t.body.len - 1

\* C17: (as claimed) every write done so far ends inside the buffer, and no
\* two of them cover a common byte, whatever bodies the fetches returned.
C17_WritesInsideDisjoint ==
    /\ \A i \in 1 .. written : WriteHi(tasks[i]) < total_size
    /\ \A i, j \in 1 .. written :
        i < j => (WriteHi(tasks[i]) < WriteLo(tasks[j])
                    \/ WriteHi(tasks[j]) < WriteLo(tasks[i]))

\* ------------------------------------------------------------------------
\* Termination of the download

\* parallel_download_to_memfd has returned, Ok or Err.
Returned == pc \in {"Materialized", "exec", "HandedOff", "Failed"}

\* The spawn loop waits for a permit.
WaitsForPermit == pc = "spawn" /\ start < total_size /\ permits = 0

\* C18: a spawn loop that waits for a permit waits for fetches in flight,
\* each of which can settle; and under the fair scheduling of the main task
\* and of every fetch, a download that has started returns, also when it has
\* more ranges than permits.
C18_DownloadReturns ==
    /\ [](WaitsForPermit =>
            /\ InFlight # {}
            /\ \A i \in InFlight : ENABLED TaskStep(i))
    /\ (pc = "head") ~> Returned

\* The download returned its memory file after the spawn loop had waited:
\* there were more ranges than permits.
C18_Witness ==
    /\ pc = "Materialized"
    /\ Len(tasks) > concurrent_downloads
    /\ written = Len(tasks)

\* ------------------------------------------------------------------------
\* write_at taken alone: chunks written in any order

\* Where the data of a sampled chunk starts in its source; the data of a
\* chunk is bytes from .. from + len - 1 of that source.
DataOrigins == {0, 7}

\* The ways to lay chunks into a buffer of `size` bytes: every byte is left
\* out, starts a chunk, or continues the chunk of the byte before it.
Layouts(size) ==
    { m \in [0 .. (size - 1) -> {"gap", "start", "cont"}] :
        \A i \in 0 .. (size - 1) : m[i] = "cont" => (i > 0 /\ m[i - 1] # "gap") }

\* The last byte of the chunk that starts at lo.
LayoutEnd(m, lo, size) ==
    CHOOSE hi \in lo .. (size - 1) :
        /\ \A k \in (lo + 1) .. hi : m[k] = "cont"
        /\ hi = size - 1 \/ m[hi + 1] # "cont"

\* The chunk results (data, offset) of a layout, the data of the chunk at lo
\* taken from origin[lo] on.
ChunksOf(m, origin, size) ==
    { [offset |-> lo,
       data |-> Body(LayoutEnd(m, lo, size) - lo + 1, LayoutEnd(m, lo, size) - lo + 1,
                     origin[lo])] :
        lo \in { i \in 0 .. (size - 1) : m[i] = "start" } }

ChunkLo(c) == c.offset

ChunkHi(c) == c.offset + c.data.len - 1

Disjoint(chunks) ==
    \A c, d \in chunks : c = d \/ ChunkHi(c) < ChunkLo(d) \/ ChunkHi(d) < ChunkLo(c)

WriteInit ==
    /\ NoRun
    /\ \E size \in 1 .. MaxBufferSize :
        \E m \in Layouts(size), origin \in [0 .. (size - 1) -> DataOrigins] :
            /\ Disjoint(ChunksOf(m, origin, size))
            /\ sample = [of |-> "write", size |-> size,
                         file |-> Ftruncate(EmptyFile, size),
                         pending |-> ChunksOf(m, origin, size), order |-> <<>>]

\* Any of the chunks not yet written is written.
WriteAny ==
    /\ sample.of = "write"
    /\ \E c \in sample.pending :
        sample' = [sample EXCEPT
                     !.file = write_at(sample.file, c.data, c.offset),
                     !.pending = sample.pending \ {c},
                     !.order = Append(sample.order, c)]
    /\ UNCHANGED runVars

WriteSpec == WriteInit /\ [][WriteAny]_vars

\* What reading byte i of the file gives: a zero, the byte of a source at
\* some position, or a byte of no source.
ByteAt(file, i) ==
    LET s == CHOOSE t \in file.data : t.lo <= i /\ i <= t.hi
    IN  IF s.kind = "src" THEN <<"src", s.from + (i - s.lo)>> ELSE <<s.kind>>

\* The chunks written so far.
WrittenChunks == { sample.order[k] : k \in 1 .. Len(sample.order) }

\* C19: after any number of the disjoint chunks written in any order, the
\* buffer has its size, every byte of a written chunk reads back as that
\* chunk's data and every other byte as zero: the contents depend on which
\* chunks were written, not on the order.
C19_OrderIrrelevant ==
    sample.of = "write" =>
        /\ sample.file.size = sample.size
        /\ Tiles(sample.file)
        /\ \A i \in 0 .. (sample.size - 1) :
            IF \E c \in WrittenChunks : ChunkLo(c) <= i /\ i <= ChunkHi(c)
            THEN LET c == CHOOSE d \in WrittenChunks : ChunkLo(d) <= i /\ i <= ChunkHi(d)
                 IN  ByteAt(sample.file, i) = <<"src", c.data.from + (i - c.offset)>>
            ELSE ByteAt(sample.file, i) = <<"zero">>

\* Three chunks written in descending order of offset, with a gap left.
C19_Witness ==
    /\ sample.of = "write"
    /\ sample.pending = {}
    /\ Len(sample.order) = 3
    /\ sample.order[1].offset > sample.order[2].offset
    /\ sample.order[2].offset > sample.order[3].offset
    /\ \E i \in 0 .. (sample.size - 1) : ByteAt(sample.file, i) = <<"zero">>
    /\ \E k \in 1 .. 3 : sample.order[k].data.from # sample.order[k].offset

\* ------------------------------------------------------------------------
\* The order of the writes

\* Fetched bodies that are held in memory, not yet written.
Unwritten == { i \in TaskIds : tasks[i].st = "ok" /\ i > written }

\* C20: a write happens only in the join loop, when the spawn loop has
\* admitted every range of the object and issued its fetch; the writes are
\* done one per step by the main task, the k-th write being the body of the
\* k-th range at that range's offset, so in ascending order of the ranges.
\* (That the bodies held unwritten can be as many as the ranges, more than
\* the permits, is shown by the witness.)
C20_WritesAfterAdmissionInOrder ==
    /\ [](written > 0 =>
            /\ start >= total_size
            /\ Len(tasks) = TotalChunks(total_size, chunk_size)
            /\ \A i \in 1 .. written : tasks[i].st = "ok")
    /\ [][written' # written =>
            /\ pc = "await" /\ SpawnFinished
            /\ start >= total_size
            /\ Len(tasks) = TotalChunks(total_size, chunk_size)
            /\ tasks' = tasks
            /\ written' = written + 1
            /\ tasks[written'].st = "ok"
            /\ tasks[written'].start = written * chunk_size
            /\ \A i \in 1 .. written : tasks[i].start < tasks[written'].start
            /\ memfile' = write_at(memfile, tasks[written'].body, tasks[written'].start)]_vars

\* Every range's body is fetched and none is written yet: more bodies are
\* held than there are permits.
C20_Witness ==
    /\ pc = "join"
    /\ written = 0
    /\ Len(tasks) = MaxRanges
    /\ Cardinality(Unwritten) = Len(tasks)
    /\ Cardinality(Unwritten) > concurrent_downloads

\* ------------------------------------------------------------------------
\* The descriptor on the failure paths

\* The errors parallel_download_to_memfd returns once the memory file exists.
DownloadErrors ==
    { "Failed to set file size", "Task join failed", "Chunk download failed",
      "Failed to seek in memfd", "Failed to write to memfd" }

\* No reference to the memory file has left the download: no path, no
\* substituted argument, no program started.
NoReference ==
    /\ memfd_path = NoPath
    /\ command = NoCommand
    /\ ~exec_called
    /\ ~child_has_file

\* C21: a run that ended with a failed pre-sizing, fetch, task join or write
\* has its descriptor closed and has produced no path, no substituted
\* argument and no exec; the descriptor is closed in the very step that
\* returns the error; and a run that has ended with its descriptor still open
\* is one that reached exec.
C21_ClosedOnFailure ==
    /\ [](/\ error \in DownloadErrors =>
                pc = "Failed" /\ memfd = "closed" /\ NoReference
          /\ (memfd = "open" /\ pc \in {"Failed", "HandedOff"}) =>
                /\ exec_called
                /\ memfd_path = MemfdPath(memfd_fd)
                /\ pc = "Failed" => error = "exec failed"
          /\ memfd = "closed" => pc = "Failed" /\ error \in DownloadErrors)
    /\ [][(pc' = "Failed" /\ Phase(pc) = "Downloading" /\ memfd = "open")
            => memfd' = "closed" /\ error' \in DownloadErrors /\ NoReference']_vars

\* A write failed after others had succeeded: the descriptor is closed and
\* nothing refers to the memory file.
C21_Witness ==
    /\ pc = "Failed"
    /\ error = "Failed to write to memfd"
    /\ written > 0
    /\ memfd = "closed"
    /\ NoReference

====
